---- MODULE Spec2Model ----
(***************************************************************************)
(* CoordinatesFromIPs.js: getCoordinatesFromIP (validation, then up to     *)
(* three geolocation providers in a fixed order), getCoordinatesFromIPs    *)
(* (Promise.all over one resolution per IP) and createFlowsFromIPs (a      *)
(* sequential loop of two resolutions per pair).                           *)
(*                                                                         *)
(* JavaScript values are modelled as follows.                              *)
(*   - a string is the tuple of its characters;                            *)
(*   - an argument value is a record [t, s]: t is its type ("string",     *)
(*     "undefined", "symbol"), s the characters of a string;               *)
(*   - null, as a result of a resolution, is the empty tuple NULL, and a   *)
(*     coordinate pair [lon, lat] is the tuple <<lon, lat>>;               *)
(*   - a property of a response body is <<>> when it is missing and <<n>>  *)
(*     when it is the number n;                                            *)
(*   - an async call runs synchronously up to its first await, and each    *)
(*     later resumption (a settled fetch, a settled json(), a settled      *)
(*     awaited promise) is one step of the event loop.                     *)
(***************************************************************************)
EXTENDS Integers, Sequences, FiniteSets

(* ------------------------------ bounds -------------------------------- *)

\* longest list handed to getCoordinatesFromIPs
MaxIPs == 2

\* longest list handed to createFlowsFromIPs
MaxPairs == 2

(* ----------------------- constants of the source ----------------------- *)

\* the regular expression's (...){3}: three "digits then dot" groups
DottedGroups == 3

\* the regular expression's \d{1,3}: at most three digits a group
MaxDigits == 3

\* the number of provider blocks of getCoordinatesFromIP
NumProviders == 3

(* ------------------------------ strings ------------------------------- *)

Digits == {"0", "1", "2", "3", "4", "5", "6", "7", "8", "9"}

Str(s) == [t |-> "string", s |-> s]

Undefined == [t |-> "undefined", s |-> <<>>]

Symbol == [t |-> "symbol", s |-> <<>>]

IsString(v) == v.t = "string"

\* "8.8.8.8", "1.1.1.1", "208.67.222.222", "999.999.999.999" (no range check)
ValidIPs ==
  { Str(<<"8", ".", "8", ".", "8", ".", "8">>),
    Str(<<"1", ".", "1", ".", "1", ".", "1">>),
    Str(<<"2", "0", "8", ".", "6", "7", ".", "2", "2", "2", ".", "2", "2", "2">>),
    Str(<<"9", "9", "9", ".", "9", "9", "9", ".", "9", "9", "9", ".", "9", "9", "9">>) }

\* "bad", "", "1.2.3", "1.2.3.4.5", "1234.1.1.1", "1..1.1", "8.8.8.8 ",
\* "a.b.c.d", "1.1.1.", ".1.1.1.1"
InvalidIPs ==
  { Str(<<"b", "a", "d">>),
    Str(<<>>),
    Str(<<"1", ".", "2", ".", "3">>),
    Str(<<"1", ".", "2", ".", "3", ".", "4", ".", "5">>),
    Str(<<"1", "2", "3", "4", ".", "1", ".", "1", ".", "1">>),
    Str(<<"1", ".", ".", "1", ".", "1">>),
    Str(<<"8", ".", "8", ".", "8", ".", "8", " ">>),
    Str(<<"a", ".", "b", ".", "c", ".", "d">>),
    Str(<<"1", ".", "1", ".", "1", ".">>),
    Str(<<".", "1", ".", "1", ".", "1", ".", "1">>) }

\* the arguments tried on a direct call of getCoordinatesFromIP
ResolveArgs == ValidIPs \cup InvalidIPs \cup {Undefined, Symbol}

\* the elements of the lists tried on getCoordinatesFromIPs
BatchIPs ==
  { Str(<<"8", ".", "8", ".", "8", ".", "8">>),
    Str(<<"1", ".", "1", ".", "1", ".", "1">>),
    Str(<<"b", "a", "d">>),
    Symbol }

\* the srcIP and dstIP tried on createFlowsFromIPs
FlowIPs ==
  { Str(<<"8", ".", "8", ".", "8", ".", "8">>),
    Str(<<"b", "a", "d">>),
    Symbol }

\* RegExp.prototype.test converts its argument with ToString: a Symbol
\* cannot be converted (TypeError), undefined becomes "undefined".
CanToString(v) == v.t # "symbol"

ToString(v) ==
  IF v.t = "string" THEN v.s
  ELSE <<"u", "n", "d", "e", "f", "i", "n", "e", "d">>

\* s[i..] matches  (\d{1,3}\.){g}\d{1,3}$
RECURSIVE MatchGroups(_, _, _)
MatchGroups(s, i, g) ==
  \E d \in 1..MaxDigits :
    /\ i + d - 1 <= Len(s)
    /\ \A j \in i..(i + d - 1) : s[j] \in Digits
    /\ IF g > 0
       THEN /\ i + d <= Len(s)
            /\ s[i + d] = "."
            /\ MatchGroups(s, i + d + 1, g - 1)
       ELSE i + d - 1 = Len(s)

\* a looser test: any string holding a dot passes
ipRegexTestLoose(s) == \E j \in 1..Len(s) : s[j] = "."

\* /^(\d{1,3}\.){3}\d{1,3}$/.test(s)
ipRegexTest(s) == MatchGroups(s, 1, DottedGroups)

(* ----------------------------- responses ------------------------------ *)

NULL == <<>>

Missing == <<>>

Num(n) == <<n>>

\* the values a provider may give for a longitude field
LonVals == {Missing, Num(0), Num(1), Num(2)}

\* the values a provider may give for a latitude field
LatVals == {Missing, Num(0), Num(3)}

\* A parsed body: JSON null (every property read throws a TypeError), or an
\* object of which the model keeps the three properties the provider's block
\* reads: status, lon, lat for provider 1 (data1.status, data1.lon,
\* data1.lat) and longitude, latitude for providers 2 and 3.
NullBody == [body |-> "null", status |-> "fail", lon |-> Missing, lat |-> Missing]

Bodies ==
  {NullBody} \cup
  [body : {"object"}, status : {"success", "fail"}, lon : LonVals, lat : LatVals]

\* What a request ends with: fetch rejects, json() rejects, or a parsed body.
Outcomes ==
  { [kind |-> "neterr", data |-> NullBody], [kind |-> "parseerr", data |-> NullBody] }
  \cup [kind : {"data"}, data : Bodies]

\* JavaScript truthiness of a property holding a number or nothing, with 0
\* taken for a usable number
TruthyZeroOk(v) == v # Missing

\* JavaScript truthiness of a property holding a number or nothing
Truthy(v) == v # Missing /\ v[1] # 0

(* ------------------------ getCoordinatesFromIP ------------------------ *)

\* One call of getCoordinatesFromIP: its argument, where it stands ("idle":
\* not called yet; "fetch": awaiting fetch of provider k; "json": awaiting
\* response.json() of provider k; "done": returned ret; "raised": its
\* promise rejected), and the providers it has sent a request to, in order.
IdleCall ==
  [ipAddress |-> Undefined, pc |-> "idle", k |-> 0, ret |-> NULL, reqs |-> <<>>]

\* fetch(<url of provider p>) is issued and awaited
Request(f, p) == [f EXCEPT !.pc = "fetch", !.k = p, !.reqs = Append(@, p)]

\* the pair with latitude first
CoordsSwapped(d) == <<d.lat[1], d.lon[1]>>

\* [data.lon, data.lat]  (providers 2, 3: [data.longitude, data.latitude])
Coords(d) == <<d.lon[1], d.lat[1]>>

\* the if of provider p's block
Usable(p, d) ==
  IF p = 1
  THEN d.status = "success" /\ Truthy(d.lon) /\ Truthy(d.lat)
  ELSE Truthy(d.lon) /\ Truthy(d.lat)

\* leaving a block gives up the whole resolution
AfterBlockAbort(f) == [f EXCEPT !.pc = "done", !.ret = NULL]

\* leaving a block asks the same provider again, once
AfterBlockRetry(f) ==
  IF Len(f.reqs) < NumProviders
  THEN Request(f, f.k)
  ELSE [f EXCEPT !.pc = "done", !.ret = NULL]

\* Control leaves provider k's try/catch without a return: the next block
\* starts, or, after the last one, console.error and return null.
AfterBlock(f) ==
  IF f.k < NumProviders
  THEN Request(f, f.k + 1)
  ELSE [f EXCEPT !.pc = "done", !.ret = NULL]

\* a catch that throws the error again
CatchRethrow(f) == [f EXCEPT !.pc = "raised"]

\* catch (error) { console.warn(...) }
Catch(f) == AfterBlock(f)

\* The call up to its first await: ipRegex.test(ipAddress), which throws on
\* a value with no string form, then return null or the first fetch.
getCoordinatesFromIP(v) ==
  LET f == [IdleCall EXCEPT !.ipAddress = v]
  IN  IF ~CanToString(v) THEN [f EXCEPT !.pc = "raised"]
      ELSE IF ~ipRegexTest(ToString(v)) THEN [f EXCEPT !.pc = "done", !.ret = NULL]
      ELSE Request(f, 1)

\* await fetch(...) settles: a rejection is caught, a response is parsed next
OnFetchSettled(f, o) ==
  IF o.kind = "neterr" THEN Catch(f) ELSE [f EXCEPT !.pc = "json"]

\* await response.json() settles: a rejection is caught; reading a property
\* of null throws and is caught; a usable body is returned; else fall through
OnJsonSettled(f, o) ==
  IF o.kind = "parseerr" THEN Catch(f)
  ELSE IF o.data.body = "null" THEN Catch(f)
  ELSE IF Usable(f.k, o.data) THEN [f EXCEPT !.pc = "done", !.ret = Coords(o.data)]
  ELSE AfterBlock(f)

Settled(f) == f.pc \in {"done", "raised"}

InFlight(f) == f.pc \in {"fetch", "json"}

(* ------------------------------- state -------------------------------- *)

Max(a, b) == IF a >= b THEN a ELSE b

\* call i of getCoordinatesFromIPs resolves ipAddresses[i]; calls 2i-1 and 2i
\* of createFlowsFromIPs resolve ipPairs[i].srcIP and ipPairs[i].dstIP
CallIds == 1..Max(1, Max(MaxIPs, 2 * MaxPairs))

SeqsUpTo(S, n) == UNION {[1..m -> S] : m \in 0..n}

NotArray == [array |-> FALSE, items |-> <<>>]

Array(items) == [array |-> TRUE, items |-> items]

NullPair == [object |-> FALSE, srcIP |-> Undefined, dstIP |-> Undefined]

Pairs == {NullPair} \cup [object : {TRUE}, srcIP : FlowIPs, dstIP : FlowIPs]

BatchArgs == {NotArray} \cup {Array(l) : l \in SeqsUpTo(BatchIPs, MaxIPs)}

FlowArgs == {NotArray} \cup {Array(l) : l \in SeqsUpTo(Pairs, MaxPairs)}

VARIABLES
  entry,   \* the exported function that was called
  arg,     \* its argument
  top,     \* its promise: [pc, value]
  calls,   \* the calls of getCoordinatesFromIP it made
  trace,   \* what each request of a direct getCoordinatesFromIP call ended with
  slots,   \* getCoordinatesFromIPs: the promises of the mapped arrow functions
  loop     \* createFlowsFromIPs: pair index, awaited side, srcCoords, flows

vars == <<entry, arg, top, calls, trace, slots, loop>>

PendingSlot == [state |-> "pending", ip |-> Undefined, coords |-> NULL]

NoLoop == [i |-> 0, side |-> "none", srcCoords |-> NULL, flows |-> <<>>]

Init ==
  /\ entry \in {"getCoordinatesFromIP", "getCoordinatesFromIPs", "createFlowsFromIPs"}
  /\ arg \in CASE entry = "getCoordinatesFromIP" -> ResolveArgs
               [] entry = "getCoordinatesFromIPs" -> BatchArgs
               [] OTHER -> FlowArgs
  /\ top = [pc |-> "init", value |-> <<>>]
  /\ calls = [c \in CallIds |-> IdleCall]
  /\ trace = <<>>
  /\ slots = <<>>
  /\ loop = NoLoop

(* --------------------- steps of getCoordinatesFromIP ------------------- *)

Record(o) ==
  IF entry = "getCoordinatesFromIP" THEN Append(trace, o) ELSE trace

\* the fetch awaited by call c settles
FetchSettles(c) ==
  /\ calls[c].pc = "fetch"
  /\ \E o \in {x \in Outcomes : x.kind = "neterr" \/ x = [kind |-> "data", data |-> NullBody]} :
       /\ calls' = [calls EXCEPT ![c] = OnFetchSettled(@, o)]
       /\ trace' = IF o.kind = "neterr" THEN Record(o) ELSE trace
  /\ UNCHANGED <<entry, arg, top, slots, loop>>

\* the response.json() awaited by call c settles
JsonSettles(c) ==
  /\ calls[c].pc = "json"
  /\ \E o \in {x \in Outcomes : x.kind # "neterr"} :
       /\ calls' = [calls EXCEPT ![c] = OnJsonSettled(@, o)]
       /\ trace' = Record(o)
  /\ UNCHANGED <<entry, arg, top, slots, loop>>

(* ------------------ a direct getCoordinatesFromIP call ----------------- *)

ResolveCall ==
  /\ entry = "getCoordinatesFromIP"
  /\ top.pc = "init"
  /\ calls' = [calls EXCEPT ![1] = getCoordinatesFromIP(arg)]
  /\ top' = [top EXCEPT !.pc = "pending"]
  /\ UNCHANGED <<entry, arg, trace, slots, loop>>

\* the caller's await (or then/catch) sees the call's promise settle
ResolveSettles ==
  /\ entry = "getCoordinatesFromIP"
  /\ top.pc = "pending"
  /\ Settled(calls[1])
  /\ top' = IF calls[1].pc = "raised"
            THEN [top EXCEPT !.pc = "rejected"]
            ELSE [pc |-> "returned", value |-> calls[1].ret]
  /\ UNCHANGED <<entry, arg, calls, trace, slots, loop>>

(* ------------------------ getCoordinatesFromIPs ------------------------ *)

\* a map that calls the resolver for the first element only
StartCallsFirstOnly(items) ==
  [c \in CallIds |->
     IF c = 1 /\ c <= Len(items) THEN getCoordinatesFromIP(items[c]) ELSE IdleCall]

\* ipAddresses.map(async (ip) => ...): every arrow function is called in
\* turn and runs up to its await, so every resolution has started (and sent
\* its first request) when map returns
StartCalls(items) ==
  [c \in CallIds |->
     IF c <= Len(items) THEN getCoordinatesFromIP(items[c]) ELSE IdleCall]

\* the entries whose coords are not null only
ResultsDroppingNull(sl) ==
  LET all == [i \in 1..Len(sl) |-> [ip |-> sl[i].ip, coords |-> sl[i].coords]]
  IN  SelectSeq(all, LAMBDA e : e.coords # NULL)

\* the array Promise.all resolves with: the value of promise i at index i
Results(sl) == [i \in 1..Len(sl) |-> [ip |-> sl[i].ip, coords |-> sl[i].coords]]

BatchCall ==
  /\ entry = "getCoordinatesFromIPs"
  /\ top.pc = "init"
  /\ IF ~arg.array
     THEN /\ top' = [top EXCEPT !.pc = "rejected"]
          /\ UNCHANGED <<calls, slots>>
     ELSE /\ calls' = StartCalls(arg.items)
          /\ slots' = [i \in 1..Len(arg.items) |-> PendingSlot]
          /\ top' = [top EXCEPT !.pc = "pending"]
  /\ UNCHANGED <<entry, arg, trace, loop>>

\* the arrow function of element i resumes after its await and settles its
\* promise: fulfilled with {ip, coords}, or rejected as the call was
SlotSettles(i) ==
  /\ entry = "getCoordinatesFromIPs"
  /\ i \in DOMAIN slots
  /\ slots[i].state = "pending"
  /\ Settled(calls[i])
  /\ slots' = [slots EXCEPT ![i] =
                 IF calls[i].pc = "raised"
                 THEN [@ EXCEPT !.state = "rejected"]
                 ELSE [state |-> "fulfilled", ip |-> arg.items[i], coords |-> calls[i].ret]]
  /\ UNCHANGED <<entry, arg, top, calls, trace, loop>>

\* Promise.all is fulfilled once every promise is, and results is returned
BatchReturns ==
  /\ entry = "getCoordinatesFromIPs"
  /\ top.pc = "pending"
  /\ \A i \in DOMAIN slots : slots[i].state = "fulfilled"
  /\ top' = [pc |-> "returned", value |-> Results(slots)]
  /\ UNCHANGED <<entry, arg, calls, trace, slots, loop>>

\* Promise.all is rejected as soon as one promise is
BatchRejects ==
  /\ entry = "getCoordinatesFromIPs"
  /\ top.pc = "pending"
  /\ \E i \in DOMAIN slots : slots[i].state = "rejected"
  /\ top' = [top EXCEPT !.pc = "rejected"]
  /\ UNCHANGED <<entry, arg, calls, trace, slots, loop>>

(* -------------------------- createFlowsFromIPs ------------------------- *)

SrcCall(i) == 2 * i - 1

DstCall(i) == 2 * i

\* both lookups of the pair are started together
CallSrcAndDst(cs, i, pair) ==
  [cs EXCEPT ![SrcCall(i)] = getCoordinatesFromIP(pair.srcIP),
             ![DstCall(i)] = getCoordinatesFromIP(pair.dstIP)]

\* getCoordinatesFromIP(pair.srcIP) is called, and awaited
CallSrc(cs, i, pair) == [cs EXCEPT ![SrcCall(i)] = getCoordinatesFromIP(pair.srcIP)]

\* getCoordinatesFromIP(pair.dstIP) is called, and awaited
CallDst(cs, i, pair) == [cs EXCEPT ![DstCall(i)] = getCoordinatesFromIP(pair.dstIP)]

\* a flow is kept when either end resolved
PushFlowEither(flows, src, dst) ==
  IF src # NULL \/ dst # NULL
  THEN Append(flows, [src |-> src, dst |-> dst])
  ELSE flows

\* if (srcCoords && dstCoords) flows.push({src: srcCoords, dst: dstCoords});
\* null is falsy and an array is truthy
PushFlow(flows, src, dst) ==
  IF src # NULL /\ dst # NULL
  THEN Append(flows, [src |-> src, dst |-> dst])
  ELSE flows

\* The loop takes ipPairs[i] (or ends): reading srcIP of a pair that is no
\* object throws; else the source lookup is called and awaited.
Iterate(i, flows) ==
  IF i > Len(arg.items)
  THEN /\ top' = [pc |-> "returned", value |-> flows]
       /\ loop' = [i |-> i, side |-> "none", srcCoords |-> NULL, flows |-> flows]
       /\ UNCHANGED calls
  ELSE IF ~arg.items[i].object
  THEN /\ top' = [top EXCEPT !.pc = "rejected"]
       /\ loop' = [i |-> i, side |-> "none", srcCoords |-> NULL, flows |-> flows]
       /\ UNCHANGED calls
  ELSE /\ top' = [top EXCEPT !.pc = "pending"]
       /\ loop' = [i |-> i, side |-> "src", srcCoords |-> NULL, flows |-> flows]
       /\ calls' = CallSrc(calls, i, arg.items[i])

FlowCall ==
  /\ entry = "createFlowsFromIPs"
  /\ top.pc = "init"
  /\ IF ~arg.array
     THEN /\ top' = [top EXCEPT !.pc = "rejected"]
          /\ UNCHANGED <<calls, loop>>
     ELSE Iterate(1, <<>>)
  /\ UNCHANGED <<entry, arg, trace, slots>>

\* the await of the source lookup resumes
FlowResumeSrc ==
  /\ entry = "createFlowsFromIPs"
  /\ top.pc = "pending"
  /\ loop.side = "src"
  /\ Settled(calls[SrcCall(loop.i)])
  /\ IF calls[SrcCall(loop.i)].pc = "raised"
     THEN /\ top' = [top EXCEPT !.pc = "rejected"]
          /\ loop' = [loop EXCEPT !.side = "none"]
          /\ UNCHANGED calls
     ELSE /\ loop' = [loop EXCEPT !.side = "dst", !.srcCoords = calls[SrcCall(loop.i)].ret]
          /\ calls' = CallDst(calls, loop.i, arg.items[loop.i])
          /\ UNCHANGED top
  /\ UNCHANGED <<entry, arg, trace, slots>>

\* the await of the destination lookup resumes
FlowResumeDst ==
  /\ entry = "createFlowsFromIPs"
  /\ top.pc = "pending"
  /\ loop.side = "dst"
  /\ Settled(calls[DstCall(loop.i)])
  /\ IF calls[DstCall(loop.i)].pc = "raised"
     THEN /\ top' = [top EXCEPT !.pc = "rejected"]
          /\ loop' = [loop EXCEPT !.side = "none"]
          /\ UNCHANGED calls
     ELSE Iterate(loop.i + 1,
                  PushFlow(loop.flows, loop.srcCoords, calls[DstCall(loop.i)].ret))
  /\ UNCHANGED <<entry, arg, trace, slots>>

(* --------------------------- specifications ---------------------------- *)

Next ==
  \/ \E c \in CallIds : FetchSettles(c)
  \/ \E c \in CallIds : JsonSettles(c)
  \/ ResolveCall
  \/ ResolveSettles
  \/ BatchCall
  \/ \E i \in CallIds : SlotSettles(i)
  \/ BatchReturns
  \/ BatchRejects
  \/ FlowCall
  \/ FlowResumeSrc
  \/ FlowResumeDst

Spec == Init /\ [][Next]_vars

InitBatch == Init /\ entry = "getCoordinatesFromIPs"

NextBatch ==
  \/ \E c \in CallIds : FetchSettles(c)
  \/ \E c \in CallIds : JsonSettles(c)
  \/ BatchCall
  \/ \E i \in CallIds : SlotSettles(i)
  \/ BatchReturns
  \/ BatchRejects

\* Every provider request completes in the end (the premise of the batch's
\* termination), and the event loop runs every resumption that is ready.
FairSpecBatch ==
  /\ InitBatch
  /\ [][NextBatch]_vars
  /\ \A c \in CallIds : WF_vars(FetchSettles(c)) /\ WF_vars(JsonSettles(c))
  /\ \A i \in CallIds : WF_vars(SlotSettles(i))
  /\ WF_vars(BatchCall)
  /\ WF_vars(BatchReturns)
  /\ WF_vars(BatchRejects)

(* ------------------------- vocabulary of claims ------------------------ *)

\* four groups of one to three decimal digits, separated by three dots
IsDottedQuad(s) ==
  LET dots == {j \in 1..Len(s) : s[j] = "."}
      ends == dots \cup {Len(s) + 1}
      GroupLen(e) == Cardinality({j \in 1..(e - 1) : \A d \in dots : d < j \/ d >= e})
  IN  /\ Cardinality(dots) = 3
      /\ \A j \in (1..Len(s)) \ dots : s[j] \in Digits
      /\ \A e \in ends : GroupLen(e) \in 1..3

Direct == entry = "getCoordinatesFromIP"

Batch == entry = "getCoordinatesFromIPs"

Flows == entry = "createFlowsFromIPs"

NonZero(v) == v # Missing /\ v[1] # 0

HasZero(o) ==
  /\ o.kind = "data" /\ o.data.body = "object"
  /\ (o.data.lon = Num(0) \/ o.data.lat = Num(0))

\* outcome o, received from provider p, carries usable coordinates
Succeeded(p, o) ==
  /\ o.kind = "data" /\ o.data.body = "object"
  /\ (p = 1 => o.data.status = "success")
  /\ NonZero(o.data.lon) /\ NonZero(o.data.lat)

PairOf(o) == <<o.data.lon[1], o.data.lat[1]>>

\* the arguments of the documented types: a value with a string form, an
\* array of such values, an array of objects with such srcIP and dstIP
Typed ==
  CASE Direct -> CanToString(arg)
    [] Batch -> arg.array /\ \A i \in 1..Len(arg.items) : CanToString(arg.items[i])
    [] OTHER -> /\ arg.array
                /\ \A i \in 1..Len(arg.items) :
                     /\ arg.items[i].object
                     /\ CanToString(arg.items[i].srcIP)
                     /\ CanToString(arg.items[i].dstIP)

NoneRaised == top.pc # "rejected" /\ \A c \in CallIds : calls[c].pc # "raised"

WellFormedResult ==
  top.pc = "returned" =>
    CASE Direct -> top.value = NULL \/ Len(top.value) = 2
      [] Batch -> Len(top.value) = Len(arg.items)
      [] OTHER -> Len(top.value) <= Len(arg.items)

(* -------------------------------- claims ------------------------------- *)

\* C1 (as stated): whatever the argument and whatever the providers do, no
\* call of the three exported functions ends rejected.
C1_NeverRaisesAnyInput == NoneRaised

\* C1 (amended): for an argument of the documented type (a string or any
\* value with a string form; an array of such; an array of {srcIP, dstIP}
\* objects) and whatever the providers do, no call of getCoordinatesFromIP,
\* getCoordinatesFromIPs or createFlowsFromIPs ends rejected, and what is
\* returned is a pair or null, the entry list, or the flow list.
C1_NeverRaisesTyped == Typed => (NoneRaised /\ WellFormedResult)

\* a direct call that met a network failure, an unparsable body and a null
\* body, and returned
C1_Witness ==
  /\ Direct /\ Typed /\ top.pc = "returned" /\ Len(trace) = 3
  /\ trace[1].kind = "neterr" /\ trace[2].kind = "parseerr"
  /\ trace[3].kind = "data" /\ trace[3].data.body = "null"

\* C2: a call whose argument is a string that is no dotted quad has returned
\* null and has sent no request to any provider.
C2_InvalidNoRequest ==
  \A c \in CallIds :
    (calls[c].pc # "idle" /\ IsString(calls[c].ipAddress)
       /\ ~IsDottedQuad(calls[c].ipAddress.s))
    => (calls[c].pc = "done" /\ calls[c].ret = NULL /\ calls[c].reqs = <<>>)

C2_Witness ==
  /\ Direct /\ arg \in InvalidIPs /\ arg.s # <<>>
  /\ top.pc = "returned" /\ top.value = NULL /\ calls[1].reqs = <<>>

\* C3: once provider 1 has answered a valid IP with status 'success' and a
\* non-zero lon and lat, the call has returned exactly <<lon, lat>> of that
\* answer and provider 1 is the only provider it sent a request to.
C3_Provider1Wins ==
  (Direct /\ Len(trace) >= 1 /\ Succeeded(1, trace[1]))
  => /\ calls[1].pc = "done"
     /\ calls[1].ret = PairOf(trace[1])
     /\ calls[1].reqs = <<1>>
     /\ (top.pc = "returned" => top.value = PairOf(trace[1]))

C3_Witness ==
  /\ Direct /\ Len(trace) = 1 /\ Succeeded(1, trace[1])
  /\ top.pc = "returned" /\ top.value = <<2, 3>>

\* C4: requests go to providers 1, 2, 3 in that order, a provider that
\* failed is followed by a request to the next one, and when provider 1
\* failed in any way and provider 2 answered with a non-zero longitude and
\* latitude the call has returned exactly provider 2's pair.
C4_FallsThroughToProvider2 ==
  Direct =>
    /\ \A j \in 1..Len(calls[1].reqs) : calls[1].reqs[j] = j
    /\ \A j \in 1..Len(trace) :
         (j < NumProviders /\ \A h \in 1..j : ~Succeeded(h, trace[h]))
         => Len(calls[1].reqs) >= j + 1
    /\ (Len(trace) >= 2 /\ ~Succeeded(1, trace[1]) /\ Succeeded(2, trace[2]))
       => /\ calls[1].pc = "done"
          /\ calls[1].ret = PairOf(trace[2])
          /\ (top.pc = "returned" => top.value = PairOf(trace[2]))

C4_Witness ==
  /\ Direct /\ Len(trace) = 2 /\ trace[1].kind = "neterr"
  /\ Succeeded(2, trace[2]) /\ trace[2].data.status = "fail"
  /\ top.pc = "returned" /\ top.value = <<1, 3>>

\* C5: when all three providers failed or gave unusable data, the call has
\* returned null after exactly three requests, to providers 1, 2, 3 in that
\* order; and no call ever sends more than three requests.
C5_AllFailThreeRequests ==
  /\ \A c \in CallIds : Len(calls[c].reqs) <= NumProviders
  /\ (Direct /\ Len(trace) = NumProviders
        /\ \A j \in 1..NumProviders : ~Succeeded(j, trace[j]))
     => /\ calls[1].pc = "done"
        /\ calls[1].ret = NULL
        /\ calls[1].reqs = <<1, 2, 3>>
        /\ (top.pc = "returned" => top.value = NULL)

C5_Witness ==
  /\ Direct /\ Len(trace) = 3 /\ top.pc = "returned" /\ top.value = NULL
  /\ trace[1].kind = "data" /\ trace[1].data.status = "fail"
  /\ NonZero(trace[1].data.lon) /\ NonZero(trace[1].data.lat)
  /\ trace[2].kind = "neterr"
  /\ trace[3].kind = "data" /\ trace[3].data.lon = Missing
  /\ calls[1].reqs = <<1, 2, 3>>

\* C6: the list getCoordinatesFromIPs returns is as long as its input, and
\* its i-th entry holds the i-th input IP and the result of the resolution
\* of that IP, null included, in whatever order the resolutions ended.
C6_BatchAligned ==
  (Batch /\ top.pc = "returned")
  => /\ Len(top.value) = Len(arg.items)
     /\ \A i \in 1..Len(arg.items) :
          /\ top.value[i].ip = arg.items[i]
          /\ calls[i].pc = "done"
          /\ top.value[i].coords = calls[i].ret

\* a batch of two in which the second resolution ended first (on provider
\* 1) and the first one, after three requests, in null
C6_Witness ==
  /\ Batch /\ top.pc = "returned" /\ Len(top.value) = 2
  /\ top.value[1].coords = NULL /\ Len(calls[1].reqs) = 3
  /\ top.value[2].coords = <<1, 3>> /\ Len(calls[2].reqs) = 1
  /\ top.value[1].ip # top.value[2].ip

\* C7: the list createFlowsFromIPs returns holds, in input order, one flow
\* {src, dst} for exactly the pairs whose two resolutions both gave a pair,
\* src and dst being those results; it is never longer than the input.
KeptPairs ==
  SelectSeq([i \in 1..Len(arg.items) |-> i],
            LAMBDA i : calls[SrcCall(i)].ret # NULL /\ calls[DstCall(i)].ret # NULL)

C7_FlowsAreResolvedPairs ==
  (Flows /\ top.pc = "returned")
  => /\ Len(top.value) <= Len(arg.items)
     /\ top.value = [j \in 1..Len(KeptPairs) |->
                       [src |-> calls[SrcCall(KeptPairs[j])].ret,
                        dst |-> calls[DstCall(KeptPairs[j])].ret]]

\* two pairs, the first dropped for its source, the second kept
C7_Witness ==
  /\ Flows /\ top.pc = "returned" /\ Len(arg.items) = 2
  /\ calls[1].ret = NULL /\ calls[2].ret # NULL
  /\ top.value = <<[src |-> <<1, 3>>, dst |-> <<2, 3>>]>>

\* C8: a provider's answer with a longitude or latitude of exactly 0 is
\* never returned: after it the next provider has been sent a request, or,
\* after provider 3, the call has returned null; no result holds a 0.
C8_ZeroIsFailure ==
  /\ \A c \in CallIds :
       calls[c].ret # NULL => (calls[c].ret[1] # 0 /\ calls[c].ret[2] # 0)
  /\ Direct =>
       \A j \in 1..Len(trace) :
         HasZero(trace[j]) =>
           IF j < NumProviders
           THEN Len(calls[1].reqs) >= j + 1 /\ calls[1].reqs[j + 1] = j + 1
           ELSE calls[1].pc = "done" /\ calls[1].ret = NULL

\* zeros from all three providers, with a success status and the other
\* coordinate non-zero
C8_Witness ==
  /\ Direct /\ Len(trace) = 3 /\ top.pc = "returned" /\ top.value = NULL
  /\ \A j \in 1..3 : HasZero(trace[j]) /\ trace[j].data.status = "success"
  /\ trace[1].data.lon = Num(0) /\ trace[1].data.lat = Num(3)
  /\ trace[2].data.lon = Num(2) /\ trace[2].data.lat = Num(0)
  /\ trace[3].data.lon = Num(0) /\ trace[3].data.lat = Num(3)

\* C9: during a createFlowsFromIPs call at most one request is outstanding;
\* a call's requests go out in the order 1, 2, 3 and only its latest one
\* can be outstanding; and a lookup has started only if every earlier lookup
\* (the source of the same pair, both lookups of every earlier pair) has
\* completed.
C9_OneRequestAtATime ==
  Flows =>
    /\ Cardinality({c \in CallIds : InFlight(calls[c])}) <= 1
    /\ \A c \in CallIds :
         /\ \A j \in 1..Len(calls[c].reqs) : calls[c].reqs[j] = j
         /\ InFlight(calls[c]) => calls[c].k = Len(calls[c].reqs)
    /\ \A c, d \in CallIds :
         (c < d /\ calls[d].pc # "idle") => Settled(calls[c])

\* the destination lookup of the second pair is on its third request
C9_Witness ==
  /\ Flows /\ Len(arg.items) = 2
  /\ calls[DstCall(2)].pc = "json" /\ calls[DstCall(2)].k = 3
  /\ calls[SrcCall(1)].reqs = <<1, 2, 3>> /\ calls[DstCall(1)].reqs = <<1>>

\* C10: when getCoordinatesFromIPs suspends, every resolution has started;
\* it returns only when every resolution has completed; a resolution that
\* has not completed can always take its next step, whatever became of the
\* others; and, every request completing in the end, a batch of IPs returns.
C10_AllStarted ==
  (Batch /\ top.pc # "init" /\ arg.array)
  => \A i \in 1..Len(arg.items) : calls[i].pc # "idle"

C10_ReturnsAfterAll ==
  (Batch /\ top.pc = "returned")
  => \A i \in 1..Len(arg.items) : calls[i].pc = "done" /\ slots[i].state = "fulfilled"

C10_NeverBlocked ==
  \A c \in CallIds :
    /\ calls[c].pc = "fetch" => ENABLED FetchSettles(c)
    /\ calls[c].pc = "json" => ENABLED JsonSettles(c)

C10_BatchConcurrentAndTerminates ==
  /\ [](C10_AllStarted /\ C10_ReturnsAfterAll /\ C10_NeverBlocked)
  /\ (Batch /\ Typed) ~> (top.pc = "returned")

\* the first IP was refused at once while the second is still being resolved
C10_Witness ==
  /\ Batch /\ Typed /\ Len(arg.items) = 2
  /\ calls[1].pc = "done" /\ calls[1].ret = NULL /\ calls[1].reqs = <<>>
  /\ slots[1].state = "fulfilled"
  /\ calls[2].pc = "json" /\ calls[2].k = 2

====
